---- MODULE Spec2Model ----
(***************************************************************************)
(* Model of resources/python/convert_cityjsonfeatures.py: one run of the   *)
(* script, from the argument vector to the exported files.                 *)
(*                                                                         *)
(* Strings are sequences of tokens: "/" is the path separator, "." the     *)
(* dot, "\n" the newline, every other token stands for a non-empty run of  *)
(* ordinary characters.  A JSON object is a function from its keys.        *)
(***************************************************************************)
EXTENDS Integers, Sequences, FiniteSets, TLC

VARIABLES
    pc,          \* position of the run in the script
    argv,        \* the argument vector, argv[1] .. argv[4]
    fs,          \* the files on disk: resolved path -> content
    fs0,         \* the files on disk when the run started
    dirs,        \* the directories that exist
    created,     \* directories this run created
    opened,      \* resolved paths this run opened for reading
    unlinked,    \* resolved paths this run deleted
    written,     \* paths this run opened for writing
    cm,          \* the CityJSON object built by merge
    lcount,      \* merge's line counter
    input_file,  \* the open pointer file: its lines and the loop position
    openedLines, \* loop positions whose path was opened
    merged,      \* fragments folded in by add_cityjsonfeature, in order
    printed,     \* diagnostics printed by merge, in order
    reprojected, \* cm.reproject was called and returned
    lod_pos,     \* position in lod_file_names
    err          \* the exception that ended the run, if any

vars == <<pc, argv, fs, fs0, dirs, created, opened, unlinked, written, cm,
          lcount, input_file, openedLines, merged, printed, reprojected,
          lod_pos, err>>

\* Longest pointer file, in lines.
MaxLines == 3

----------------------------------------------------------------------------
(* pathlib *)

RECURSIVE RFind(_, _)
\* str.rfind as a 1-based index, 0 when the token does not occur
RFind(s, t) ==
    IF s = <<>> THEN 0
    ELSE IF s[Len(s)] = t THEN Len(s)
    ELSE RFind(SubSeq(s, 1, Len(s) - 1), t)

\* PurePath.name: the final path component
Name(p) == SubSeq(p, RFind(p, "/") + 1, Len(p))

\* PurePath.parent
Parent(p) ==
    LET i == RFind(p, "/")
    IN  IF i = 0 THEN <<".">>
        ELSE IF i = 1 THEN <<"/">>
        ELSE SubSeq(p, 1, i - 1)

\* PurePath.suffix: name[i:] when 0 < i < len(name) - 1 for i = name.rfind('.')
Suffix(p) ==
    LET name == Name(p)
        i    == RFind(name, ".")
    IN  IF 1 < i /\ i < Len(name) THEN SubSeq(name, i, Len(name)) ELSE <<>>

\* PurePath.stem: name[:i] under the same condition, else the name
Stem(p) ==
    LET name == Name(p)
        i    == RFind(name, ".")
    IN  IF 1 < i /\ i < Len(name) THEN SubSeq(name, 1, i - 1) ELSE name

\* parent / name
Join(parent, name) ==
    IF parent = <<"/">> THEN parent \o name ELSE parent \o <<"/">> \o name

\* PurePath.with_suffix: the old suffix, if any, is replaced
WithSuffix(p, suffix) ==
    LET name == Name(p)
        old  == Suffix(p)
    IN  Join(Parent(p), SubSeq(name, 1, Len(name) - Len(old)) \o suffix)

\* the working directory of the run
Cwd == <<"/", "w">>

\* Path.resolve on the paths of the model (no symlinks, no "." or ".."
\* components): the empty path is the working directory, a relative path is
\* made absolute
Resolve(p) ==
    IF p = <<>> THEN Cwd
    ELSE IF p[1] = "/" THEN p
    ELSE Join(Cwd, p)

RECURSIVE LStrip(_, _)
LStrip(s, t) == IF s # <<>> /\ s[1] = t THEN LStrip(Tail(s), t) ELSE s

RECURSIVE RStrip(_, _)
RStrip(s, t) ==
    IF s # <<>> /\ s[Len(s)] = t THEN RStrip(SubSeq(s, 1, Len(s) - 1), t) ELSE s

\* str.strip(chars) for a single character
Strip(s, t) == RStrip(LStrip(s, t), t)

----------------------------------------------------------------------------
(* the script's constants and argument-derived values *)

supported_formats == {"cityjson", "3dtiles"}

\* the (lod, suffix) pairs of the tiled-mesh export
lod_file_names == << <<"2.2", <<>>>> >>

\* the EPSG code handed to reproject
TargetCRS == 4978

output_format == argv[1]
output_file == argv[2]
cityjson_path == Resolve(argv[3])
path_features_input_file == Resolve(argv[4])

NoError == [kind |-> "none", line |-> 0, at |-> "none"]
Unset == [unset |-> TRUE]

----------------------------------------------------------------------------
(* the files of a run *)

\* argv[3] and argv[4]
BaseArg == <<"base", ".", "city", ".", "json">>
PointerArg == <<"features", ".", "txt">>

\* argv[2]: a plain output name and one whose stem contains a dot
OutputArgs == { <<"out", "/", "tile", ".", "json">>,
                <<"out", "/", "tile", ".", "city", ".", "json">> }

\* argv[1]: the supported formats and an unsupported one
FormatArgs == supported_formats \cup {"obj"}

Feature(id, v) ==
    ("type" :> "CityJSONFeature") @@ ("CityObjects" :> {id}) @@ ("vertices" :> <<v>>)

\* the fragment files on disk: a.jsonl and the hidden file .jsonl hold
\* features, b.jsonl carries another type tag, n.jsonl carries none, c.json
\* holds a feature under another suffix; m.jsonl does not exist
FragmentFiles ==
    (<<"/", "w", "/", "a", ".", "jsonl">> :> [kind |-> "json", j |-> Feature("A", 1)])
    @@ (<<"/", "w", "/", "b", ".", "jsonl">> :>
          [kind |-> "json",
           j |-> ("type" :> "CityJSON") @@ ("CityObjects" :> {"B"}) @@ ("vertices" :> <<2>>)])
    @@ (<<"/", "w", "/", "n", ".", "jsonl">> :>
          [kind |-> "json", j |-> ("CityObjects" :> {"N"}) @@ ("vertices" :> <<3>>)])
    @@ (<<"/", "w", "/", "c", ".", "json">> :> [kind |-> "json", j |-> Feature("C", 4)])
    @@ (<<"/", "w", "/", ".", "jsonl">> :> [kind |-> "json", j |-> Feature("H", 5)])

\* what a line of the pointer file can hold before its newline: a relative
\* path, an absolute path, a missing file, a path with another suffix, a
\* hidden file, nothing
LinePaths ==
    { <<"a", ".", "jsonl">>,
      <<"/", "w", "/", "b", ".", "jsonl">>,
      <<"n", ".", "jsonl">>,
      <<"m", ".", "jsonl">>,
      <<"c", ".", "json">>,
      <<".", "jsonl">>,
      <<>> }

Lines == { l \o <<"\n">> : l \in LinePaths }

PointerContents == UNION { [1..n -> Lines] : n \in 0..MaxLines }

\* base documents with and without the two collections
BaseDocuments ==
    { ("type" :> "CityJSON"),
      ("type" :> "CityJSON") @@ ("CityObjects" :> {"X"}),
      ("type" :> "CityJSON") @@ ("vertices" :> <<9>>),
      ("type" :> "CityJSON") @@ ("CityObjects" :> {"X"}) @@ ("vertices" :> <<9>>) }

\* the disk before the run: the fragment files, the base document (a JSON
\* document, a file that does not parse, or no file) and the pointer file
\* (a list of lines, or no file)
Disks ==
    LET bases == { (Resolve(BaseArg) :> [kind |-> "json", j |-> j]) @@ FragmentFiles
                      : j \in BaseDocuments }
                 \cup { (Resolve(BaseArg) :> [kind |-> "malformed"]) @@ FragmentFiles,
                        FragmentFiles }
    IN  { (Resolve(PointerArg) :> [kind |-> "lines", lines |-> ls]) @@ d
            : ls \in PointerContents, d \in bases }
        \cup { d \in bases : d = FragmentFiles
                             \/ d[Resolve(BaseArg)] = [kind |-> "json", j |-> ("type" :> "CityJSON")] }

RECURSIVE Ancestors(_)
\* a directory and every directory above it
Ancestors(d) == IF d = <<"/">> \/ d = <<".">> THEN {d} ELSE {d} \cup Ancestors(Parent(d))

OutDir == Resolve(Parent(output_file))

Init ==
    /\ pc = "start"
    /\ argv \in { <<f, o, BaseArg, PointerArg>> : f \in FormatArgs, o \in OutputArgs }
    /\ fs0 \in Disks
    /\ fs = fs0
    /\ dirs \in { Ancestors(Cwd), Ancestors(Cwd) \cup { Join(Cwd, <<"out">>) } }
    /\ created = {}
    /\ opened = {}
    /\ unlinked = {}
    /\ written = {}
    /\ cm = Unset
    /\ lcount = 0
    /\ input_file = [lines |-> <<>>, pos |-> 0]
    /\ openedLines = {}
    /\ merged = <<>>
    /\ printed = <<>>
    /\ reprojected = FALSE
    /\ lod_pos = 0
    /\ err = NoError

----------------------------------------------------------------------------
(* __main__, lines 37-47 *)

\* ParseArguments with the directory made before the format is checked
ParseArguments_mkdirFirst ==
    /\ pc = "start"
    /\ dirs' = dirs \cup Ancestors(OutDir)
    /\ created' = created \cup (Ancestors(OutDir) \ dirs)
    /\ IF output_format \notin supported_formats
       THEN /\ pc' = "aborted"
            /\ err' = [kind |-> "ValueError", line |-> 0, at |-> "main"]
       ELSE /\ pc' = "load_base"
            /\ UNCHANGED err
    /\ UNCHANGED <<argv, fs, fs0, opened, unlinked, written, cm, lcount,
                   input_file, openedLines, merged, printed, reprojected, lod_pos>>

\* the format check, then mkdir(parents=True, exist_ok=True) on the parent
\* of the output file
ParseArguments ==
    /\ pc = "start"
    /\ IF output_format \notin supported_formats
       THEN /\ pc' = "aborted"
            /\ err' = [kind |-> "ValueError", line |-> 0, at |-> "main"]
            /\ UNCHANGED <<dirs, created>>
       ELSE /\ pc' = "load_base"
            /\ dirs' = dirs \cup Ancestors(OutDir)
            /\ created' = created \cup (Ancestors(OutDir) \ dirs)
            /\ UNCHANGED err
    /\ UNCHANGED <<argv, fs, fs0, opened, unlinked, written, cm, lcount,
                   input_file, openedLines, merged, printed, reprojected, lod_pos>>

----------------------------------------------------------------------------
(* merge, lines 9-32 *)

\* EnsureCollections with the two collections reset whether present or not
EnsureCollections_overwrite(j) ==
    ("CityObjects" :> {}) @@ ("vertices" :> <<>>) @@ j

\* lines 15-18: the two collections are created empty when absent
EnsureCollections(j) ==
    LET j2 == IF "CityObjects" \notin DOMAIN j THEN j @@ ("CityObjects" :> {}) ELSE j
    IN  IF "vertices" \notin DOMAIN j2 THEN j2 @@ ("vertices" :> <<>>) ELSE j2

\* lines 10-18: lcount = 1, the base document is opened and parsed
MergeLoadBase ==
    /\ pc = "load_base"
    /\ lcount' = 1
    /\ IF cityjson_path \notin DOMAIN fs
       THEN /\ pc' = "aborted"
            /\ err' = [kind |-> "FileNotFoundError", line |-> 0, at |-> "merge"]
            /\ UNCHANGED <<opened, cm>>
       ELSE /\ opened' = opened \cup {cityjson_path}
            /\ IF fs[cityjson_path].kind # "json"
               THEN /\ pc' = "aborted"
                    /\ err' = [kind |-> "JSONDecodeError", line |-> 0, at |-> "merge"]
                    /\ UNCHANGED cm
               ELSE /\ pc' = "open_list"
                    /\ cm' = [j |-> EnsureCollections(fs[cityjson_path].j)]
                    /\ UNCHANGED err
    /\ UNCHANGED <<argv, fs, fs0, dirs, created, unlinked, written, input_file,
                   openedLines, merged, printed, reprojected, lod_pos>>

\* MergeOpenList with the pointer file deleted as soon as it is opened
MergeOpenList_unlinkEarly ==
    /\ pc = "open_list"
    /\ IF path_features_input_file \notin DOMAIN fs
       THEN /\ pc' = "aborted"
            /\ err' = [kind |-> "FileNotFoundError", line |-> 0, at |-> "merge"]
            /\ UNCHANGED <<opened, input_file, fs, unlinked>>
       ELSE /\ pc' = "loop"
            /\ opened' = opened \cup {path_features_input_file}
            /\ input_file' = [lines |-> fs[path_features_input_file].lines, pos |-> 1]
            /\ fs' = [q \in DOMAIN fs \ {path_features_input_file} |-> fs[q]]
            /\ unlinked' = unlinked \cup {path_features_input_file}
            /\ UNCHANGED err
    /\ UNCHANGED <<argv, fs0, dirs, created, written, cm, lcount,
                   openedLines, merged, printed, reprojected, lod_pos>>

\* line 19: the pointer file is opened
MergeOpenList ==
    /\ pc = "open_list"
    /\ IF path_features_input_file \notin DOMAIN fs
       THEN /\ pc' = "aborted"
            /\ err' = [kind |-> "FileNotFoundError", line |-> 0, at |-> "merge"]
            /\ UNCHANGED <<opened, input_file>>
       ELSE /\ pc' = "loop"
            /\ opened' = opened \cup {path_features_input_file}
            /\ input_file' = [lines |-> fs[path_features_input_file].lines, pos |-> 1]
            /\ UNCHANGED err
    /\ UNCHANGED <<argv, fs, fs0, dirs, created, unlinked, written, cm, lcount,
                   openedLines, merged, printed, reprojected, lod_pos>>

\* line 21
LinePath(p) == Resolve(Strip(p, "\n"))

\* IsFeaturePath accepting any path that has a suffix
IsFeaturePath_anySuffix(path) == Suffix(path) # <<>>

\* line 22
IsFeaturePath(path) == Suffix(path) = <<".", "jsonl">>

\* IsCityJSONFeature testing only that the type key is there
IsCityJSONFeature_keyOnly(j1) == "type" \in DOMAIN j1

\* line 25
IsCityJSONFeature(j1) == "type" \in DOMAIN j1 /\ j1["type"] = "CityJSONFeature"

\* line 28, cjio's add_cityjsonfeature: the feature's objects and vertices
\* are added to the document's
AddCityJSONFeature(j, j1) ==
    [j EXCEPT !["CityObjects"] = @ \cup j1["CityObjects"],
              !["vertices"] = @ \o j1["vertices"]]

\* LineOutcome without the suffix test: every listed path is opened
LineOutcome_noSuffixCheck(p) ==
    LET path == LinePath(p)
    IN  IF path \notin DOMAIN fs THEN "missing"
        ELSE IF fs[path].kind # "json" THEN "malformed"
        ELSE IF ~IsCityJSONFeature(fs[path].j) THEN "mismatch"
        ELSE "merge"

\* what the loop body does with the line p, lines 21-30
LineOutcome(p) ==
    LET path == LinePath(p)
    IN  IF ~IsFeaturePath(path) THEN "skip"
        ELSE IF path \notin DOMAIN fs THEN "missing"
        ELSE IF fs[path].kind # "json" THEN "malformed"
        ELSE IF ~IsCityJSONFeature(fs[path].j) THEN "mismatch"
        ELSE "merge"

\* lines 20-30: one iteration of the loop over the pointer file
MergeLine ==
    /\ pc = "loop"
    /\ input_file.pos <= Len(input_file.lines)
    /\ LET p       == input_file.lines[input_file.pos]
           path    == LinePath(p)
           outcome == LineOutcome(p)
       IN  /\ opened' = IF outcome \in {"malformed", "mismatch", "merge"}
                        THEN opened \cup {path} ELSE opened
           /\ openedLines' = IF outcome \in {"malformed", "mismatch", "merge"}
                             THEN openedLines \cup {input_file.pos} ELSE openedLines
           /\ cm' = IF outcome = "merge"
                    THEN [j |-> AddCityJSONFeature(cm.j, fs[path].j)] ELSE cm
           /\ merged' = IF outcome = "merge"
                        THEN Append(merged, [line |-> input_file.pos, path |-> path,
                                             j |-> fs[path].j])
                        ELSE merged
           /\ printed' = IF outcome = "skip"
                         THEN Append(printed, [line |-> input_file.pos, path |-> path,
                                               suffix |-> Suffix(path)])
                         ELSE printed
           /\ err' = CASE outcome = "missing" ->
                            [kind |-> "FileNotFoundError", line |-> 0, at |-> "merge"]
                       [] outcome = "malformed" ->
                            [kind |-> "JSONDecodeError", line |-> 0, at |-> "merge"]
                       [] outcome = "mismatch" ->
                            [kind |-> "IOError", line |-> lcount, at |-> "merge"]
                       [] OTHER -> err
           /\ pc' = IF outcome \in {"skip", "merge"} THEN "loop" ELSE "aborted"
           /\ input_file' = IF outcome \in {"skip", "merge"}
                            THEN [input_file EXCEPT !.pos = @ + 1] ELSE input_file
    /\ UNCHANGED <<argv, fs, fs0, dirs, created, unlinked, written, lcount,
                   reprojected, lod_pos>>

\* Path.unlink
Unlink(f, p) == [q \in DOMAIN f \ {p} |-> f[q]]

\* the for loop over the pointer file is exhausted
LoopDone == input_file.pos > Len(input_file.lines)

\* MergeFinish deleting the base document instead of the pointer file
MergeFinish_unlinkBase ==
    /\ pc = "loop"
    /\ LoopDone
    /\ fs' = Unlink(fs, cityjson_path)
    /\ unlinked' = unlinked \cup {cityjson_path}
    /\ pc' = "export"
    /\ UNCHANGED <<argv, fs0, dirs, created, opened, written, cm, lcount,
                   input_file, openedLines, merged, printed, reprojected,
                   lod_pos, err>>

\* MergeFinish inside the loop body: it runs after the first line
MergeFinish_inLoop ==
    /\ pc = "loop"
    /\ input_file.pos > 1
    /\ fs' = Unlink(fs, path_features_input_file)
    /\ unlinked' = unlinked \cup {path_features_input_file}
    /\ pc' = "export"
    /\ UNCHANGED <<argv, fs0, dirs, created, opened, written, cm, lcount,
                   input_file, openedLines, merged, printed, reprojected,
                   lod_pos, err>>

\* lines 31-32: the pointer file is deleted and merge returns
MergeFinish ==
    /\ pc = "loop"
    /\ LoopDone
    /\ fs' = Unlink(fs, path_features_input_file)
    /\ unlinked' = unlinked \cup {path_features_input_file}
    /\ pc' = "export"
    /\ UNCHANGED <<argv, fs0, dirs, created, opened, written, cm, lcount,
                   input_file, openedLines, merged, printed, reprojected,
                   lod_pos, err>>

----------------------------------------------------------------------------
(* __main__, lines 50-70: the export.  The else branch of lines 69-70 is  *)
(* not reachable: line 39 lets only the two supported formats through.     *)

\* lines 50-52: the document is written as text to the output file
ExportCityJSON ==
    /\ pc = "export"
    /\ output_format = "cityjson"
    /\ fs' = (Resolve(output_file) :> [kind |-> "text", j |-> cm.j]) @@ fs
    /\ written' = written \cup {Resolve(output_file)}
    /\ pc' = "done"
    /\ UNCHANGED <<argv, fs0, dirs, created, opened, unlinked, cm, lcount,
                   input_file, openedLines, merged, printed, reprojected,
                   lod_pos, err>>

\* lines 53-54: cjio's reproject either returns or raises
Reproject ==
    /\ pc = "export"
    /\ output_format = "3dtiles"
    /\ \E ok \in BOOLEAN :
        IF ok
        THEN /\ cm' = [j |-> ("epsg" :> TargetCRS) @@ cm.j]
             /\ reprojected' = TRUE
             /\ lod_pos' = 1
             /\ pc' = "lod"
             /\ UNCHANGED err
        ELSE /\ pc' = "aborted"
             /\ err' = [kind |-> "LibraryError", line |-> 0, at |-> "export"]
             /\ UNCHANGED <<cm, reprojected, lod_pos>>
    /\ UNCHANGED <<argv, fs, fs0, dirs, created, opened, unlinked, written,
                   lcount, input_file, openedLines, merged, printed>>

\* line 66: the tile's file for a suffix of lod_file_names
OutputFileTile(suffix) ==
    WithSuffix(Join(Parent(output_file), Stem(output_file) \o suffix), <<".", "glb">>)

\* lines 61-68: one iteration of the loop over lod_file_names; cjio's
\* filter_lod and export2glb either return or raise
ExportLod ==
    /\ pc = "lod"
    /\ lod_pos <= Len(lod_file_names)
    /\ \E ok \in BOOLEAN :
        IF ok
        THEN LET lod    == lod_file_names[lod_pos][1]
                 suffix == lod_file_names[lod_pos][2]
                 tile   == Resolve(OutputFileTile(suffix))
             IN  /\ fs' = (tile :> [kind |-> "glb", lod |-> lod]) @@ fs
                 /\ written' = written \cup {tile}
                 /\ lod_pos' = lod_pos + 1
                 /\ pc' = IF lod_pos + 1 > Len(lod_file_names) THEN "done" ELSE "lod"
                 /\ UNCHANGED err
        ELSE /\ pc' = "aborted"
             /\ err' = [kind |-> "LibraryError", line |-> 0, at |-> "export"]
             /\ UNCHANGED <<fs, written, lod_pos>>
    /\ UNCHANGED <<argv, fs0, dirs, created, opened, unlinked, cm, lcount,
                   input_file, openedLines, merged, printed, reprojected>>

Next ==
    \/ ParseArguments
    \/ MergeLoadBase
    \/ MergeOpenList
    \/ MergeLine
    \/ MergeFinish
    \/ ExportCityJSON
    \/ Reproject
    \/ ExportLod

Spec == Init /\ [][Next]_vars

----------------------------------------------------------------------------
(* properties *)

\* the pointer file was on disk when the run started
PointerListed == path_features_input_file \in DOMAIN fs0

\* the lines of the pointer file as the run found it
PointerLines == fs0[path_features_input_file].lines

\* the path written on line i of the pointer file
ListedPath(i) == Resolve(Strip(PointerLines[i], "\n"))

\* line i of the pointer file has been merged / skipped with a diagnostic
LineMerged(i) == \E k \in 1..Len(merged) : merged[k].line = i
LineSkipped(i) == \E k \in 1..Len(printed) : printed[k].line = i

\* merge has returned to __main__
MergeReturned ==
    \/ pc \in {"export", "lod", "done"}
    \/ pc = "aborted" /\ err.at = "export"

\* C1: with an output format other than 'cityjson' and '3dtiles' the run
\* ends with the validation error before any I/O: no directory is created,
\* no file is opened, deleted or written, and the disk is as it was.
C1_InvalidFormatNoIO ==
    output_format \notin {"cityjson", "3dtiles"} =>
        /\ pc \in {"start", "aborted"}
        /\ pc = "aborted" => err.kind = "ValueError" /\ err.at = "main"
        /\ created = {}
        /\ opened = {}
        /\ unlinked = {}
        /\ written = {}
        /\ fs = fs0

C1_Witness ==
    /\ output_format = "obj"
    /\ pc = "aborted"
    /\ err.kind = "ValueError"
    /\ OutDir \notin dirs
    /\ PointerListed

\* C2: every fragment folded into the document came from a path with the
\* suffix '.jsonl' whose content has a 'type' field equal to
\* 'CityJSONFeature', and the document holds no object of a fragment file
\* that lacks the suffix or the tag.
C2_OnlyTaggedFeaturesMerged ==
    /\ \A k \in 1..Len(merged) :
        /\ Suffix(merged[k].path) = <<".", "jsonl">>
        /\ "type" \in DOMAIN merged[k].j
        /\ merged[k].j["type"] = "CityJSONFeature"
        /\ merged[k].j = fs0[merged[k].path].j
    /\ cm # Unset =>
        \A f \in DOMAIN FragmentFiles :
            FragmentFiles[f].j["CityObjects"] \cap cm.j["CityObjects"] # {} =>
                /\ Suffix(f) = <<".", "jsonl">>
                /\ "type" \in DOMAIN FragmentFiles[f].j
                /\ FragmentFiles[f].j["type"] = "CityJSONFeature"

C2_Witness ==
    /\ pc = "export"
    /\ Len(merged) >= 1
    /\ Len(printed) >= 1
    /\ "A" \in cm.j["CityObjects"]

\* line i of the pointer file names an existing '.jsonl' file that parses
\* and whose type tag is not 'CityJSONFeature'
ListsMismatch(i) ==
    /\ Suffix(ListedPath(i)) = <<".", "jsonl">>
    /\ ListedPath(i) \in DOMAIN fs0
    /\ fs0[ListedPath(i)].kind = "json"
    /\ ~ ( /\ "type" \in DOMAIN fs0[ListedPath(i)].j
           /\ fs0[ListedPath(i)].j["type"] = "CityJSONFeature" )

HasMismatch == PointerListed /\ \E i \in 1..Len(PointerLines) : ListsMismatch(i)

\* C3: when the pointer file lists a '.jsonl' fragment whose type tag is not
\* 'CityJSONFeature', merge never returns, a run that got past the format
\* check ends inside merge, and no output file is written.
C3_MismatchNoOutput ==
    HasMismatch =>
        /\ written = {}
        /\ ~ MergeReturned
        /\ ~ (pc = "loop" /\ LoopDone)
        /\ (pc = "aborted" /\ output_format \in supported_formats) => err.at = "merge"

C3_Witness ==
    /\ HasMismatch
    /\ pc = "aborted"
    /\ err.kind = "IOError"
    /\ Len(merged) >= 1

\* C4: once merge has returned the pointer file is no longer on disk, and
\* the run deletes no other file: the base document and the fragment files
\* stay.
C4_OnlyPointerDeleted ==
    /\ MergeReturned => path_features_input_file \notin DOMAIN fs
    /\ unlinked \subseteq {path_features_input_file}
    /\ \A f \in DOMAIN fs0 \ {path_features_input_file} : f \in DOMAIN fs

C4_Witness ==
    /\ pc = "export"
    /\ PointerListed
    /\ path_features_input_file \notin DOMAIN fs
    /\ cityjson_path \in DOMAIN fs
    /\ Len(merged) >= 1

\* C5: the pointer file is deleted only after every line listed in it has
\* been processed, merged or skipped.
C5_DeleteAfterAllLines ==
    (PointerListed /\ path_features_input_file \notin DOMAIN fs) =>
        /\ input_file.pos > Len(PointerLines)
        /\ \A i \in 1..Len(PointerLines) : LineMerged(i) \/ LineSkipped(i)

C5_Witness ==
    /\ path_features_input_file \in unlinked
    /\ PointerListed
    /\ Len(PointerLines) >= 2
    /\ Len(merged) >= 1

\* line i of the open pointer file names a path without the '.jsonl' suffix
NotFeatureLine(i) ==
    Suffix(Resolve(Strip(input_file.lines[i], "\n"))) # <<".", "jsonl">>

\* C6: a listed path without the '.jsonl' suffix gets a diagnostic, is not
\* opened and not merged, and the loop goes on: every '.jsonl' line the loop
\* has passed is merged, and merge never raises on a line without the suffix.
C6_SkipAndContinue ==
    /\ \A i \in 1..Len(input_file.lines) :
        i < input_file.pos =>
            IF NotFeatureLine(i)
            THEN /\ \E k \in 1..Len(printed) :
                       /\ printed[k].line = i
                       /\ printed[k].path = Resolve(Strip(input_file.lines[i], "\n"))
                 /\ i \notin openedLines
                 /\ ~ LineMerged(i)
            ELSE LineMerged(i)
    /\ (pc = "aborted" /\ err.at = "merge" /\ input_file.pos >= 1) =>
            /\ input_file.pos <= Len(input_file.lines)
            /\ ~ NotFeatureLine(input_file.pos)

C6_Witness ==
    /\ pc = "export"
    /\ \E k \in 1..Len(printed) : \E m \in 1..Len(merged) :
            printed[k].line < merged[m].line

\* C7: the error raised on a type mismatch carries the number of the
\* pointer-file line of the offending fragment.
C7_ErrorLineIsPosition ==
    (pc = "aborted" /\ err.kind = "IOError") => err.line = input_file.pos

\* the tile files the naming convention gives: <stem><suffix>.glb in the
\* directory of the output file
ConventionTiles ==
    { Resolve(Join(Parent(output_file),
                   Stem(output_file) \o lod_file_names[i][2] \o <<".", "glb">>))
        : i \in 1..Len(lod_file_names) }

\* C8: in '3dtiles' mode no tile is exported before the reprojection, and a
\* completed run has written exactly the N files <stem><suffix>.glb in the
\* output directory, one per entry of the level-of-detail list.
C8_TilesByConvention ==
    /\ (output_format = "3dtiles" /\ written # {}) => reprojected
    /\ (output_format = "3dtiles" /\ pc = "done") =>
            /\ written = ConventionTiles
            /\ Cardinality(written) = Len(lod_file_names)

\* C9: with an empty pointer file the document merge returns is the base
\* document with 'CityObjects' and 'vertices' present, each empty exactly
\* when the base document lacked it.
C9_EmptyListKeepsBase ==
    (pc = "export" /\ PointerListed /\ PointerLines = <<>>) =>
        LET j0 == fs0[cityjson_path].j
        IN  /\ DOMAIN cm.j = DOMAIN j0 \cup {"CityObjects", "vertices"}
            /\ \A key \in DOMAIN j0 : cm.j[key] = j0[key]
            /\ "CityObjects" \notin DOMAIN j0 => cm.j["CityObjects"] = {}
            /\ "vertices" \notin DOMAIN j0 => cm.j["vertices"] = <<>>

C9_Witness ==
    /\ pc = "export"
    /\ PointerListed
    /\ PointerLines = <<>>
    /\ "CityObjects" \in DOMAIN fs0[cityjson_path].j
    /\ "vertices" \notin DOMAIN fs0[cityjson_path].j

\* C10: after merge aborts on a type mismatch at a line of the pointer file,
\* the pointer file is still on disk, no later line has been opened or
\* merged, and the output directory exists.
C10_AbortLeavesPointer ==
    (pc = "aborted" /\ err.kind = "IOError") =>
        /\ path_features_input_file \in DOMAIN fs
        /\ path_features_input_file \notin unlinked
        /\ \A i \in 1..Len(input_file.lines) :
              i > input_file.pos => i \notin openedLines /\ ~ LineMerged(i)
        /\ OutDir \in dirs

C10_Witness ==
    /\ pc = "aborted"
    /\ err.kind = "IOError"
    /\ input_file.pos >= 2
    /\ input_file.pos < Len(input_file.lines)
    /\ OutDir \in created

====
